---- MODULE Spec2Model ----
(***************************************************************************)
(* Model of OpenPNM/Utilities/__graphTheoAlgs__.py: the quick_union_algs   *)
(* class (array-backed union-find with path compression and weighted       *)
(* union) and the depth_first_search_alg connectivity labeler.             *)
(*                                                                         *)
(* An array is a function from 0..n-1; a batch of vertex ids (array_like)  *)
(* is a sequence; a scalar id is a batch of length one.  Every method is   *)
(* an operator from the object's attributes and the arguments to the       *)
(* attributes after the call, the returned value and the exception raised. *)
(***************************************************************************)
EXTENDS Integers, Sequences, FiniteSets, TLC

\* Number of vertices of the parents array handed to the constructor.
N == 4
\* Longest batch of ids handed to one call.
MaxBatch == 2

Vertices == 0 .. (N - 1)

\* Number of vertices of the adjacency list handed to the labeler.
NV == 4
\* Longest neighbour list of one vertex.
MaxDeg == 2

\* Number of vertices of the long chain handed to the labeler.
DeepNV == 1000
\* The interpreter's limit on the depth of the call stack (the default of
\* sys.getrecursionlimit()), which the recursive call of
\* _visit_for_depth_first_search runs into.
RecursionLimit == 1000
\* The frames on the call stack when the first visit is called: at least
\* the caller's and that of depth_first_search.
CallerFrames == 2

\* quick_union_algs and its caller
VARIABLES
    id_updated,   \* self.id_updated: the parents array
    roots,        \* self.roots: undefined, or a reference to an array
    size,         \* self.size: undefined, or the 2-row array (roots, counts)
    call,         \* the call the caller made last
    ret,          \* what that call returned (<<>> stands for None)
    exc,          \* the exception it raised, "none", or "diverges" (no return)
    pre,          \* the three attributes as they were when the call was made
    earlier       \* <<>>, or for a repeated call what it returned and the
                  \* parents array it started from when first made

\* depth_first_search_alg
VARIABLES
    adj_list,     \* self.adj_list: per vertex, the sequence of its neighbours
    labels,       \* self.roots of the labeler: per vertex, its label or -1
    now,          \* the label of the component being visited
    scan,         \* i of the for loop of depth_first_search
    stack,        \* the frames of _visit_for_depth_first_search, innermost last
    stores,       \* per vertex, how many times self.roots[k] = now ran for it
    dfs_pc,       \* "off", "new", "run", "done" (the label array was
                  \* returned) or "raised" (RecursionError reached the caller)
    interp        \* the interpreter the labeler runs on: where it tests the
                  \* depth of the call stack against its recursion limit

ufvars == <<id_updated, roots, size, call, ret, exc, pre, earlier>>

dfsvars == <<adj_list, labels, now, scan, stack, stores, dfs_pc, interp>>

vars == <<ufvars, dfsvars>>

(***************************************************************************)
(* numpy indexing of a 1-d array of length n: an index k is valid when     *)
(* -n <= k < n and a negative k addresses element n + k.                   *)
(***************************************************************************)
ArrLen(id) == Cardinality(DOMAIN id)

InBounds(id, k) == (0 - ArrLen(id)) <= k /\ k < ArrLen(id)

Pos(id, k) == IF k < 0 THEN ArrLen(id) + k ELSE k

AllInBounds(id, v) == \A s \in DOMAIN v : InBounds(id, v[s])

\* id[v] with v a batch: the array of the addressed elements.
Take(id, v) == [s \in DOMAIN v |-> id[Pos(id, v[s])]]

\* A plausible slip: of the assignments to a repeated index the first one is
\* the one left behind.
PutFirst(id, v, w) ==
    [x \in DOMAIN id |->
        IF \E s \in DOMAIN v : Pos(id, v[s]) = x
        THEN LET first == CHOOSE s \in DOMAIN v :
                             /\ Pos(id, v[s]) = x
                             /\ \A t \in DOMAIN v : Pos(id, v[t]) = x => s <= t
             IN  w[first]
        ELSE id[x]]

\* id[v] = w with v a batch: elementwise assignment in batch order, so that
\* the last assignment to a repeated index is the one left behind.
Put(id, v, w) ==
    [x \in DOMAIN id |->
        IF \E s \in DOMAIN v : Pos(id, v[s]) = x
        THEN LET last == CHOOSE s \in DOMAIN v :
                            /\ Pos(id, v[s]) = x
                            /\ \A t \in DOMAIN v : Pos(id, v[t]) = x => t <= s
             IN  w[last]
        ELSE id[x]]

\* The outcome of a root lookup: the exception, the parents array as the
\* lookup left it, and the value returned.
Outcome(e, id, r) == [exc |-> e, id |-> id, ret |-> r]

(***************************************************************************)
(* _root: chase the parents of the whole batch until every element is its  *)
(* own parent.  seen holds the batches already visited: meeting one again  *)
(* means the while loop never ends.                                        *)
(***************************************************************************)
\* A plausible slip: sp.all in place of sp.any in the loop test, so that the
\* chase stops as soon as one element of the batch is at its root.
RECURSIVE RootLoopAll(_, _, _)
RootLoopAll(id, v_i, seen) ==
    IF ~AllInBounds(id, v_i) THEN Outcome("IndexError", id, <<>>)
    ELSE IF \E s \in DOMAIN v_i : v_i[s] = Take(id, v_i)[s] THEN Outcome("none", id, v_i)
    ELSE IF v_i \in seen THEN Outcome("diverges", id, <<>>)
    ELSE RootLoopAll(id, Take(id, v_i), seen \cup {v_i})

RECURSIVE RootLoop(_, _, _)
RootLoop(id, v_i, seen) ==
    IF ~AllInBounds(id, v_i) THEN Outcome("IndexError", id, <<>>)
    ELSE IF v_i = Take(id, v_i) THEN Outcome("none", id, v_i)
    ELSE IF v_i \in seen THEN Outcome("diverges", id, <<>>)
    ELSE RootLoop(id, Take(id, v_i), seen \cup {v_i})

_root(id, v_i) == RootLoop(id, v_i, {})

(***************************************************************************)
(* _root_path_compression, pc_type = 'path_halving': every element of the  *)
(* batch is pointed at its grandparent, then the batch moves there.        *)
(***************************************************************************)
\* A plausible slip: after pointing the batch at its grandparents the loop
\* moves to the old parents, not to the grandparents.
RECURSIVE HalvingLoopStepsToParent(_, _, _)
HalvingLoopStepsToParent(id, v_j, seen) ==
    IF ~AllInBounds(id, v_j) THEN Outcome("IndexError", id, <<>>)
    ELSE IF v_j = Take(id, v_j) THEN Outcome("none", id, v_j)
    ELSE IF <<id, v_j>> \in seen THEN Outcome("diverges", id, <<>>)
    ELSE LET id2 == Put(id, v_j, Take(id, Take(id, v_j)))
         IN  HalvingLoopStepsToParent(id2, Take(id, v_j), seen \cup {<<id, v_j>>})

RECURSIVE HalvingLoop(_, _, _)
HalvingLoop(id, v_j, seen) ==
    IF ~AllInBounds(id, v_j) THEN Outcome("IndexError", id, <<>>)
    ELSE IF v_j = Take(id, v_j) THEN Outcome("none", id, v_j)
    ELSE IF <<id, v_j>> \in seen THEN Outcome("diverges", id, <<>>)
    ELSE LET id2 == Put(id, v_j, Take(id, Take(id, v_j)))
         IN  HalvingLoop(id2, Take(id2, v_j), seen \cup {<<id, v_j>>})

(***************************************************************************)
(* _root_path_compression, pc_type = 'full_pc', second loop: re-walk the   *)
(* batch from v_i, pointing every visited element at the located root v_j. *)
(***************************************************************************)
\* A plausible slip: the second loop points every visited element at its
\* grandparent, as path halving does, instead of at the located root.
RECURSIVE FullLoopGrandparent(_, _, _, _)
FullLoopGrandparent(id, v_i, v_j, seen) ==
    IF v_i = v_j THEN Outcome("none", id, v_j)
    ELSE IF <<id, v_i>> \in seen THEN Outcome("diverges", id, <<>>)
    ELSE LET v_j_new == Take(id, v_i)
             id2     == Put(id, v_i, Take(id, v_j_new))
         IN  FullLoopGrandparent(id2, v_j_new, v_j, seen \cup {<<id, v_i>>})

\* A plausible slip: sp.all in place of sp.any in the test of the second
\* loop, so that the re-walk stops when one element of the batch is done.
RECURSIVE FullLoopStopsEarly(_, _, _, _)
FullLoopStopsEarly(id, v_i, v_j, seen) ==
    IF \E s \in DOMAIN v_i : v_i[s] = v_j[s] THEN Outcome("none", id, v_j)
    ELSE IF <<id, v_i>> \in seen THEN Outcome("diverges", id, <<>>)
    ELSE LET v_j_new == Take(id, v_i)
             id2     == Put(id, v_i, v_j)
         IN  FullLoopStopsEarly(id2, v_j_new, v_j, seen \cup {<<id, v_i>>})

RECURSIVE FullLoop(_, _, _, _)
FullLoop(id, v_i, v_j, seen) ==
    IF v_i = v_j THEN Outcome("none", id, v_j)
    ELSE IF <<id, v_i>> \in seen THEN Outcome("diverges", id, <<>>)
    ELSE LET v_j_new == Take(id, v_i)
             id2     == Put(id, v_i, v_j)
         IN  FullLoop(id2, v_j_new, v_j, seen \cup {<<id, v_i>>})

_root_path_compression(id, v_i, pc_type) ==
    IF pc_type = "path_halving" THEN HalvingLoop(id, v_i, {})
    ELSE IF pc_type = "full_pc"
    THEN LET first == RootLoop(id, v_i, {})
         IN  IF first.exc # "none" THEN first
             ELSE FullLoop(id, v_i, first.ret, {})
    ELSE Outcome("none", id, v_i)

\* A plausible slip: the flag ignored, the compressing lookup always run.
LookupAlwaysCompresses(id, v, path_compression, pc_type) ==
    _root_path_compression(id, v, pc_type)

\* The lookup a public method runs for its path_compression flag.
Lookup(id, v, path_compression, pc_type) ==
    IF path_compression THEN _root_path_compression(id, v, pc_type)
    ELSE _root(id, v)

\* A plausible slip: the two sides of the assignment exchanged, the roots
\* taken as the indices and the tested elements as the values.
find_root_assigns_backwards(id, elements_to_test, path_compression, pc_type) ==
    LET r == Lookup(id, elements_to_test, path_compression, pc_type)
    IN  IF r.exc # "none" THEN r
        ELSE Outcome("none", Put(r.id, r.ret, elements_to_test), <<>>)

\* A plausible slip: the lookup alone, its result not stored.
find_root_lookup_only(id, elements_to_test, path_compression, pc_type) ==
    LET r == Lookup(id, elements_to_test, path_compression, pc_type)
    IN  IF r.exc # "none" THEN r ELSE Outcome("none", r.id, <<>>)

(***************************************************************************)
(* find_root: the lookup, then id_updated[elements_to_test] = roots, an    *)
(* assignment that tests every index before it writes (a lookup of a       *)
(* pc_type other than the two known ones indexes nothing).  Nothing is     *)
(* returned.                                                               *)
(***************************************************************************)
find_root(id, elements_to_test, path_compression, pc_type) ==
    LET r == Lookup(id, elements_to_test, path_compression, pc_type)
    IN  IF r.exc # "none" THEN r
        ELSE IF ~AllInBounds(r.id, elements_to_test)
        THEN Outcome("IndexError", r.id, <<>>)
        ELSE Outcome("none", Put(r.id, elements_to_test, r.ret), <<>>)

(***************************************************************************)
(* build_quick_union: roots of minor, then of main; return when all pairs  *)
(* agree, else id_updated[i] = j over the whole batch, every index tested  *)
(* before anything is written.                                             *)
(***************************************************************************)
build_quick_union(id, minor, main, path_compression, pc_type) ==
    LET i == Lookup(id, minor, path_compression, pc_type)
    IN  IF i.exc # "none" THEN i
        ELSE LET j == Lookup(i.id, main, path_compression, pc_type)
             IN  IF j.exc # "none" THEN j
                 ELSE IF i.ret = j.ret THEN Outcome("none", j.id, <<>>)
                 ELSE IF ~AllInBounds(j.id, i.ret)
                 THEN Outcome("IndexError", j.id, <<>>)
                 ELSE Outcome("none", Put(j.id, i.ret, j.ret), <<>>)

(***************************************************************************)
(* sp.unique(arr, return_counts=True) as the 2-row array self.size: the    *)
(* distinct values of arr in increasing order, and under each the number   *)
(* of elements of arr holding it.                                          *)
(***************************************************************************)
SortedSeq(S) ==
    CHOOSE q \in [1 .. Cardinality(S) -> S] :
        \A a, b \in 1 .. Cardinality(S) : a < b => q[a] < q[b]

Unique(arr) ==
    LET keys == SortedSeq({arr[x] : x \in DOMAIN arr})
    IN  [defined |-> TRUE,
         keys    |-> keys,
         counts  |-> [k \in DOMAIN keys |->
                        Cardinality({x \in DOMAIN arr : arr[x] = keys[k]})]]

\* An attribute that was never assigned.
Undefined == [defined |-> FALSE]

\* self.roots = self.id_updated binds the attribute to the parents array
\* itself (no copy is made): the two names denote one array.
SameArray == [defined |-> TRUE]

\* sp.where(self.size[0] == r)[0]: the columns of the size array keyed r.
Where(sz, r) == {k \in DOMAIN sz.keys : sz.keys[k] = r}

\* sp.delete(self.size, col, axis=1)
DeleteCol(sz, col) ==
    LET drop(q) == [k \in 1 .. (Len(q) - 1) |-> IF k < col THEN q[k] ELSE q[k + 1]]
    IN  [defined |-> TRUE, keys |-> drop(sz.keys), counts |-> drop(sz.counts)]

\* The outcome of build_weighted_quick_union: the exception and the three
\* attributes as the call left them.
WOutcome(e, id, rt, sz) == [exc |-> e, id |-> id, roots |-> rt, size |-> sz]

(***************************************************************************)
(* build_weighted_quick_union, from the size lookup on: the root with the  *)
(* smaller count (i on a tie) is attached under the other, self.roots is   *)
(* relabelled and the size array loses the absorbed root's column.         *)
(* self.roots, being the parents array itself, is relabelled in it.        *)
(***************************************************************************)
Attach(id, rt, sz, i, j) ==
    IF Where(sz, i) = {} \/ Where(sz, j) = {}
    THEN WOutcome("TypeError", id, rt, sz)
    ELSE LET i_index == CHOOSE k \in Where(sz, i) : TRUE
             j_index == CHOOSE k \in Where(sz, j) : TRUE
             i_size  == sz.counts[i_index]
             j_size  == sz.counts[j_index]
             lose    == IF i_size <= j_size THEN i ELSE j
             keep    == IF i_size <= j_size THEN j ELSE i
             lose_ix == IF i_size <= j_size THEN i_index ELSE j_index
             keep_ix == IF i_size <= j_size THEN j_index ELSE i_index
             id2     == [id EXCEPT ![lose] = keep]
             id3     == [x \in DOMAIN id2 |->
                            IF id2[x] = lose THEN keep ELSE id2[x]]
             sz2     == [sz EXCEPT !.counts[keep_ix] = i_size + j_size]
         IN  IF ~rt.defined THEN WOutcome("AttributeError", id2, rt, sz)
             ELSE WOutcome("none", id3, rt, DeleteCol(sz2, lose_ix))

(***************************************************************************)
(* build_weighted_quick_union after its type check: the two lookups, the   *)
(* early return on equal roots, the size array built when it is missing,   *)
(* and the attachment.  When self.size does not exist and self.roots does  *)
(* not either, find_root is called with the keyword pc_type, which it does *)
(* not have: the call raises TypeError before find_root runs.  (self.roots *)
(* when it exists is the parents array, so its length never differs.)      *)
(***************************************************************************)
Merge(id, rt, sz, minor, main, path_compression, pc_type) ==
    LET i == Lookup(id, minor.val, path_compression, pc_type)
    IN  IF i.exc # "none" THEN WOutcome(i.exc, i.id, rt, sz)
        ELSE LET j == Lookup(i.id, main.val, path_compression, pc_type)
             IN  IF j.exc # "none" THEN WOutcome(j.exc, j.id, rt, sz)
                 ELSE IF i.ret = j.ret THEN WOutcome("none", j.id, rt, sz)
                 ELSE IF sz.defined
                 THEN Attach(j.id, rt, sz, i.ret[1], j.ret[1])
                 ELSE IF ~rt.defined
                 THEN WOutcome("TypeError", j.id, rt, sz)
                 ELSE Attach(j.id, rt, Unique(j.id), i.ret[1], j.ret[1])

\* A plausible slip: the type check made after the lookups.
build_weighted_quick_union_checks_late(id, rt, sz, minor, main, path_compression, pc_type) ==
    LET i == Lookup(id, minor.val, path_compression, pc_type)
        j == Lookup(i.id, main.val, path_compression, pc_type)
    IN  IF minor.type # "int" \/ main.type # "int"
        THEN WOutcome("Exception", IF i.exc = "none" THEN j.id ELSE i.id, rt, sz)
        ELSE Merge(id, rt, sz, minor, main, path_compression, pc_type)

(***************************************************************************)
(* build_weighted_quick_union.  minor and main are values as the caller    *)
(* passed them: [type |-> "int", val |-> <<k>>] for the int k, and         *)
(* [type |-> "list", val |-> q] for a sequence of ids.                     *)
(***************************************************************************)
build_weighted_quick_union(id, rt, sz, minor, main, path_compression, pc_type) ==
    IF minor.type # "int" \/ main.type # "int"
    THEN WOutcome("Exception", id, rt, sz)
    ELSE Merge(id, rt, sz, minor, main, path_compression, pc_type)

(***************************************************************************)
(* The parents arrays the constructor is documented to take: every vertex  *)
(* reaches, along parent links, a vertex that is its own parent.           *)
(***************************************************************************)
RECURSIVE Ancestor(_, _, _)
Ancestor(id, v, k) == IF k = 0 THEN v ELSE Ancestor(id, id[v], k - 1)

\* Where the parent links of v end up: its root when id is a forest.
RootOf(id, v) == Ancestor(id, v, ArrLen(id))

IsForest(id) == \A v \in DOMAIN id : id[RootOf(id, v)] = RootOf(id, v)

Forests == {id \in [Vertices -> Vertices] : IsForest(id)}

(***************************************************************************)
(* The caller: it makes one call at a time on the object, with arguments   *)
(* drawn from Ids, and gets the outcome back before it makes the next.     *)
(* A call whose loop never ends does not return.                           *)
(***************************************************************************)
Batches(Ids) == UNION {[1 .. n -> Ids] : n \in 1 .. MaxBatch}

ListArg(q) == [type |-> "list", val |-> q]

IntArg(k) == [type |-> "int", val |-> <<k>>]

\* (path_compression, path_compression_type) as the caller may pass them.
Modes == {<<FALSE, "path_halving">>, <<TRUE, "path_halving">>, <<TRUE, "full_pc">>}

PcTypes == {"path_halving", "full_pc"}

CallRec(op, a, b, m) ==
    [op |-> op, a |-> a, b |-> b, path_compression |-> m[1], pc_type |-> m[2]]

Idle == CallRec("idle", ListArg(<<>>), ListArg(<<>>), <<FALSE, "">>)

Attrs == [id_updated |-> id_updated, roots |-> roots, size |-> size]

\* No labeler is at work beside the union-find object.
DfsOff ==
    /\ adj_list = <<>>
    /\ labels = <<>>
    /\ now = -1
    /\ scan = 0
    /\ stack = <<>>
    /\ stores = <<>>
    /\ dfs_pc = "off"
    /\ interp = "none"

\* quick_union_algs(parents_array)
Init ==
    /\ id_updated \in Forests
    /\ roots = Undefined
    /\ size = Undefined
    /\ call = Idle
    /\ ret = <<>>
    /\ exc = "none"
    /\ pre = Attrs
    /\ earlier = <<>>
    /\ DfsOff

\* The object and the caller after a lookup or a batch union came back.
Done(c, r) ==
    /\ call' = c
    /\ id_updated' = r.id
    /\ ret' = r.ret
    /\ exc' = r.exc
    /\ pre' = Attrs
    /\ UNCHANGED <<roots, size, earlier, dfsvars>>

Call_root(Ids) ==
    /\ call.op = "idle"
    /\ \E v \in Batches(Ids) :
          Done(CallRec("_root", ListArg(v), ListArg(<<>>), <<FALSE, "">>),
               _root(id_updated, v))

Call_root_path_compression(Ids) ==
    /\ call.op = "idle"
    /\ \E v \in Batches(Ids), t \in PcTypes :
          Done(CallRec("_root_path_compression", ListArg(v), ListArg(<<>>), <<TRUE, t>>),
               _root_path_compression(id_updated, v, t))

Call_find_root(Ids) ==
    /\ call.op = "idle"
    /\ \E v \in Batches(Ids), m \in Modes :
          Done(CallRec("find_root", ListArg(v), ListArg(<<>>), m),
               find_root(id_updated, v, m[1], m[2]))

Call_build_quick_union(Ids) ==
    /\ call.op = "idle"
    /\ \E minor \in Batches(Ids), m \in Modes :
          \E main \in [DOMAIN minor -> Ids] :
              Done(CallRec("build_quick_union", ListArg(minor), ListArg(main), m),
                   build_quick_union(id_updated, minor, main, m[1], m[2]))

\* minor and main are ints of Ids, or one of them is one of the sequences
\* Lists, or both are the same one.
Call_build_weighted_quick_union(Ids, Lists) ==
    /\ call.op = "idle"
    /\ LET Ints  == {IntArg(k) : k \in Ids}
           Seqs  == {ListArg(q) : q \in Lists}
           Pairs == (Ints \X Ints) \cup (Seqs \X Ints) \cup (Ints \X Seqs)
                        \cup {<<q, q>> : q \in Seqs}
       IN  \E p \in Pairs, m \in Modes :
              LET r == build_weighted_quick_union(id_updated, roots, size,
                                                  p[1], p[2], m[1], m[2])
              IN  /\ call' = CallRec("build_weighted_quick_union", p[1], p[2], m)
                  /\ id_updated' = r.id
                  /\ roots' = r.roots
                  /\ size' = r.size
                  /\ ret' = <<>>
                  /\ exc' = r.exc
                  /\ pre' = Attrs
                  /\ UNCHANGED <<earlier, dfsvars>>

\* The caller has the outcome (the value, or the exception it caught) and
\* is ready for its next call.
Return ==
    /\ call.op # "idle"
    /\ exc # "diverges"
    /\ call' = Idle
    /\ ret' = <<>>
    /\ exc' = "none"
    /\ pre' = Attrs
    /\ earlier' = <<>>
    /\ UNCHANGED <<id_updated, roots, size, dfsvars>>

Next ==
    \/ Call_root(Vertices)
    \/ Call_root_path_compression(Vertices)
    \/ Call_find_root(Vertices)
    \/ Call_build_quick_union(Vertices)
    \/ Call_build_weighted_quick_union(Vertices, Batches(Vertices))
    \/ Return

Spec == Init /\ [][Next]_vars

(***************************************************************************)
(* The caller of the two lookups alone, who may repeat a compressing       *)
(* lookup: the same call on the same batch, made again as soon as the      *)
(* first came back.                                                        *)
(***************************************************************************)
Call_root_path_compression_again ==
    /\ call.op = "_root_path_compression"
    /\ exc = "none"
    /\ earlier = <<>>
    /\ LET r == _root_path_compression(id_updated, call.a.val, call.pc_type)
       IN  /\ call' = call
           /\ id_updated' = r.id
           /\ ret' = r.ret
           /\ exc' = r.exc
           /\ pre' = Attrs
           /\ earlier' = <<ret, pre.id_updated>>
           /\ UNCHANGED <<roots, size, dfsvars>>

NextLookup ==
    \/ Call_root(Vertices)
    \/ Call_root_path_compression(Vertices)
    \/ Call_root_path_compression_again

SpecLookup == Init /\ [][NextLookup]_vars

(***************************************************************************)
(* The caller of the weighted union alone.                                 *)
(***************************************************************************)
NextWeighted ==
    \/ Call_build_weighted_quick_union(Vertices, Batches(Vertices))
    \/ Return

SpecWeighted == Init /\ [][NextWeighted]_vars

(***************************************************************************)
(* The caller of the plain lookup and of find_root.                        *)
(***************************************************************************)
NextFind ==
    \/ Call_root(Vertices)
    \/ Call_find_root(Vertices)
    \/ Return

SpecFind == Init /\ [][NextFind]_vars

(***************************************************************************)
(* The caller of the three root-finds: the two internal lookups and        *)
(* find_root.                                                              *)
(***************************************************************************)
NextRootFind ==
    \/ Call_root(Vertices)
    \/ Call_root_path_compression(Vertices)
    \/ Call_find_root(Vertices)
    \/ Return

SpecRootFind == Init /\ [][NextRootFind]_vars

(***************************************************************************)
(* The caller of the two unions, the weighted one on int ids.              *)
(***************************************************************************)
NextUnion ==
    \/ Call_build_quick_union(Vertices)
    \/ Call_build_weighted_quick_union(Vertices, {})
    \/ Return

SpecUnion == Init /\ [][NextUnion]_vars

(***************************************************************************)
(* The caller of the weighted union on int ids and of find_root.           *)
(***************************************************************************)
NextWeightedFind ==
    \/ Call_build_weighted_quick_union(Vertices, {})
    \/ Call_find_root(Vertices)
    \/ Return

SpecWeightedFind == Init /\ [][NextWeightedFind]_vars

(***************************************************************************)
(* The caller that also passes ids outside [0, N): just below and just     *)
(* above the valid indices, and beyond the negative indices numpy accepts. *)
(***************************************************************************)
WideIds == {0 - (N + 1), -1, N} \cup Vertices

NextWide ==
    \/ Call_root(WideIds)
    \/ Call_root_path_compression(WideIds)
    \/ Call_find_root(WideIds)
    \/ Call_build_quick_union(WideIds)
    \/ Call_build_weighted_quick_union(WideIds, {})
    \/ Return

SpecWide == Init /\ [][NextWide]_vars

(***************************************************************************)
(* depth_first_search_alg.  A frame of _visit_for_depth_first_search is    *)
(* the vertex k it was called for and the position at in adj_list[k] of    *)
(* the neighbour its for loop looks at next.                               *)
(***************************************************************************)
DfsVertices == 0 .. (NV - 1)

\* With the call stack at the recursion limit, an interpreter raises
\* RecursionError either at the next call only ("call") or already at the
\* comparison val[x] == -1 of the for loop ("comparison"), whatever the
\* comparison would have given.
Interpreters == {"call", "comparison"}

NeighbourLists == UNION {[1 .. d -> DfsVertices] : d \in 0 .. MaxDeg}

\* No union-find object is at work beside the labeler.
UfOff ==
    /\ id_updated = <<>>
    /\ roots = Undefined
    /\ size = Undefined
    /\ call = Idle
    /\ ret = <<>>
    /\ exc = "none"
    /\ pre = <<>>
    /\ earlier = <<>>

\* depth_first_search_alg(adjacency_list)
InitDfs ==
    /\ adj_list \in [DfsVertices -> NeighbourLists]
    /\ labels = <<>>
    /\ now = -1
    /\ scan = 0
    /\ stack = <<>>
    /\ stores = [v \in DfsVertices |-> 0]
    /\ dfs_pc = "new"
    /\ interp \in Interpreters
    /\ UfOff

\* depth_first_search, up to its for loop: now = -1 and a fresh label array.
Start ==
    /\ dfs_pc = "new"
    /\ now' = -1
    /\ labels' = [v \in DOMAIN adj_list |-> -1]
    /\ scan' = 0
    /\ dfs_pc' = "run"
    /\ UNCHANGED <<adj_list, interp, stack, stores, ufvars>>

\* The entry of _visit_for_depth_first_search(val, lab, k): self.roots[k] = lab.
Enter(k, lab) ==
    /\ labels' = [labels EXCEPT ![k] = lab]
    /\ stores' = [stores EXCEPT ![k] = @ + 1]
    /\ stack' = Append(stack, [k |-> k, at |-> 1])

\* A plausible slip: now += 1 outside the if, so that the label advances
\* at every vertex of the scan.
ScanCountsEveryVertex ==
    /\ dfs_pc = "run"
    /\ stack = <<>>
    /\ scan < ArrLen(adj_list)
    /\ scan' = scan + 1
    /\ now' = now + 1
    /\ IF labels[scan] = -1
       THEN Enter(scan, now + 1)
       ELSE UNCHANGED <<labels, stores, stack>>
    /\ UNCHANGED <<adj_list, interp, dfs_pc, ufvars>>

\* One iteration of the for loop of depth_first_search: an unvisited vertex
\* takes the next label and is visited.
Scan ==
    /\ dfs_pc = "run"
    /\ stack = <<>>
    /\ scan < ArrLen(adj_list)
    /\ scan' = scan + 1
    /\ IF labels[scan] = -1
       THEN /\ now' = now + 1
            /\ Enter(scan, now + 1)
       ELSE UNCHANGED <<now, labels, stores, stack>>
    /\ UNCHANGED <<adj_list, interp, dfs_pc, ufvars>>

\* A plausible slip: the recursive call left out.
VisitWithoutRecursion ==
    /\ dfs_pc = "run"
    /\ stack # <<>>
    /\ LET top == stack[Len(stack)]
       IN  /\ top.at <= Len(adj_list[top.k])
           /\ stack' = [stack EXCEPT ![Len(stack)].at = @ + 1]
           /\ UNCHANGED <<labels, stores>>
    /\ UNCHANGED <<adj_list, interp, now, scan, dfs_pc, ufvars>>

\* A plausible slip: the for loop left after its first recursive call, so
\* that only the first unvisited neighbour is followed.
VisitFirstUnvisitedOnly ==
    /\ dfs_pc = "run"
    /\ stack # <<>>
    /\ LET top  == stack[Len(stack)]
           here == [stack EXCEPT ![Len(stack)].at = @ + 1]
           over == [stack EXCEPT ![Len(stack)].at = Len(adj_list[top.k]) + 1]
       IN  /\ top.at <= Len(adj_list[top.k])
           /\ LET x == adj_list[top.k][top.at]
              IN  IF labels[x] = -1
                  THEN /\ labels' = [labels EXCEPT ![x] = now]
                       /\ stores' = [stores EXCEPT ![x] = @ + 1]
                       /\ stack' = Append(over, [k |-> x, at |-> 1])
                  ELSE /\ stack' = here
                       /\ UNCHANGED <<labels, stores>>
    /\ UNCHANGED <<adj_list, interp, now, scan, dfs_pc, ufvars>>

\* One iteration of the for loop of the innermost visit: the neighbour x is
\* visited when it is still unvisited, the call stack having room for the
\* comparison and for the call.
Visit ==
    /\ dfs_pc = "run"
    /\ stack # <<>>
    /\ LET top  == stack[Len(stack)]
           here == [stack EXCEPT ![Len(stack)].at = @ + 1]
       IN  /\ top.at <= Len(adj_list[top.k])
           /\ CallerFrames + Len(stack) < RecursionLimit \/ interp = "call"
           /\ LET x == adj_list[top.k][top.at]
              IN  IF labels[x] = -1
                  THEN /\ CallerFrames + Len(stack) < RecursionLimit
                       /\ labels' = [labels EXCEPT ![x] = now]
                       /\ stores' = [stores EXCEPT ![x] = @ + 1]
                       /\ stack' = Append(here, [k |-> x, at |-> 1])
                  ELSE /\ stack' = here
                       /\ UNCHANGED <<labels, stores>>
    /\ UNCHANGED <<adj_list, interp, now, scan, dfs_pc, ufvars>>

\* The innermost visit has looked at all its neighbours and returns.
Leave ==
    /\ dfs_pc = "run"
    /\ stack # <<>>
    /\ stack[Len(stack)].at > Len(adj_list[stack[Len(stack)].k])
    /\ stack' = SubSeq(stack, 1, Len(stack) - 1)
    /\ UNCHANGED <<adj_list, interp, labels, now, scan, stores, dfs_pc, ufvars>>

\* return self.roots
Finish ==
    /\ dfs_pc = "run"
    /\ stack = <<>>
    /\ scan = ArrLen(adj_list)
    /\ dfs_pc' = "done"
    /\ UNCHANGED <<adj_list, interp, labels, now, scan, stack, stores, ufvars>>

\* With the call stack at the interpreter's limit, the comparison
\* val[x] == -1 (on the interpreters that test the depth there) or the
\* recursive call for an unvisited neighbour raises RecursionError, which
\* unwinds every visit and depth_first_search: the caller gets no label
\* array.
Overflow ==
    /\ dfs_pc = "run"
    /\ stack # <<>>
    /\ LET top == stack[Len(stack)]
       IN  /\ top.at <= Len(adj_list[top.k])
           /\ CallerFrames + Len(stack) >= RecursionLimit
           /\ interp = "comparison" \/ labels[adj_list[top.k][top.at]] = -1
    /\ stack' = <<>>
    /\ dfs_pc' = "raised"
    /\ UNCHANGED <<adj_list, interp, labels, now, scan, stores, ufvars>>

NextDfs == Start \/ Scan \/ Visit \/ Leave \/ Finish

SpecDfs == InitDfs /\ [][NextDfs]_vars

(***************************************************************************)
(* The labeler handed either a short adjacency list or the chain of DeepNV *)
(* vertices 0 - 1 - 2 - ... in which every vertex names the one before it  *)
(* and the one after it.  The short lists never bring the call stack near  *)
(* its limit; the chain does.                                              *)
(***************************************************************************)
Chain ==
    [v \in 0 .. (DeepNV - 1) |->
        IF v = 0 THEN <<1>>
        ELSE IF v = DeepNV - 1 THEN <<v - 1>>
        ELSE <<v - 1, v + 1>>]

InitDeep ==
    /\ adj_list = Chain
    /\ labels = <<>>
    /\ now = -1
    /\ scan = 0
    /\ stack = <<>>
    /\ stores = [v \in DOMAIN Chain |-> 0]
    /\ dfs_pc = "new"
    /\ interp \in Interpreters
    /\ UfOff

NextDfsDeep == Start \/ Scan \/ Visit \/ Overflow \/ Leave \/ Finish

SpecDfsDeep == (InitDfs \/ InitDeep) /\ [][NextDfsDeep]_vars

(***************************************************************************)
(* Properties of the union-find object.                                    *)
(***************************************************************************)
\* The ids handed to the last call.
Minor == call.a.val

Main == call.b.val

\* a and b reach the same self-parented vertex.
Connected(id, a, b) ==
    /\ RootOf(id, a) = RootOf(id, b)
    /\ id[RootOf(id, a)] = RootOf(id, a)

\* Per element of a batch, the self-parented vertex its parent links reach.
TrueRoots(id, v) == [k \in DOMAIN v |-> RootOf(id, v[k])]

\* Some id of the batch is at least two links away from its root.
Deep(id, v) == \E k \in DOMAIN v : id[id[v[k]]] # id[v[k]]

\* C1: started from a valid forest, after any sequence of find_root, batch
\* union and weighted_union calls with ids in [0, N), the parents array is
\* still a forest: every vertex reaches a self-parented root.
C1_ForestPreserved == IsForest(id_updated)

\* C2: after a batch union on a valid forest, whatever the compression flag
\* and mode, the two ids of every position of the batch have the same root.
C2_BatchUnionConnects ==
    (call.op = "build_quick_union" /\ exc = "none" /\ IsForest(pre.id_updated))
        => \A k \in DOMAIN Minor : Connected(id_updated, Minor[k], Main[k])

\* The size array holds one column per self-parented vertex of id, with the
\* number of vertices of that root's tree.
TableAgrees(sz, id) ==
    /\ sz.defined
    /\ {sz.keys[k] : k \in DOMAIN sz.keys} = {v \in DOMAIN id : id[v] = v}
    /\ \A k \in DOMAIN sz.keys :
          sz.counts[k] = Cardinality({v \in DOMAIN id : RootOf(id, v) = sz.keys[k]})

\* C3: weighted_union on two int ids in [0, N) whose roots differ, no size
\* table existing yet, completes without an error, leaves a size table with
\* one entry per root counting that root's vertices, and the two ids then
\* have the same root.
C3_WeightedUnionBuildsTable ==
    ( /\ call.op = "build_weighted_quick_union"
      /\ call.a.type = "int" /\ call.b.type = "int"
      /\ IsForest(pre.id_updated)
      /\ RootOf(pre.id_updated, Minor[1]) # RootOf(pre.id_updated, Main[1]) )
        => /\ exc = "none"
           /\ TableAgrees(size, id_updated)
           /\ Connected(id_updated, Minor[1], Main[1])

\* C4: on a valid forest, the plain lookup, the path_halving lookup and the
\* full_pc lookup all return, element by element of the batch, the
\* self-parented vertex that the parent links of the pre-call forest reach.
C4_LookupsReturnRoots ==
    (call.op \in {"_root", "_root_path_compression"} /\ IsForest(pre.id_updated))
        => /\ exc = "none"
           /\ ret = TrueRoots(pre.id_updated, Minor)

C4_Witness ==
    /\ call.op = "_root_path_compression"
    /\ call.pc_type = "full_pc"
    /\ IsForest(pre.id_updated)
    /\ Len(Minor) = 2
    /\ Deep(pre.id_updated, Minor)
    /\ ret = TrueRoots(pre.id_updated, Minor)
    /\ ret[1] # ret[2]
    /\ ret # Take(pre.id_updated, Minor)

\* C9: weighted_union with a minor or main that is not a single int fails
\* with the invalid-argument exception before any lookup: the parents array,
\* the size table and the roots snapshot are as they were.
C9_NonIntRejected ==
    (call.op = "build_weighted_quick_union"
        /\ (call.a.type # "int" \/ call.b.type # "int"))
        => /\ exc = "Exception"
           /\ Attrs = pre

C9_Witness ==
    /\ call.op = "build_weighted_quick_union"
    /\ call.a.type = "list"
    /\ call.b.type = "int"
    /\ call.path_compression
    /\ Len(Minor) = 2
    /\ Deep(pre.id_updated, Minor)
    /\ exc = "Exception"
    /\ id_updated = pre.id_updated

\* C8: the full_pc lookup made twice in a row on the same batch returns the
\* same roots both times, and the second call leaves every entry of the
\* parents array as the first call left it.
C8_FullCompressionIdempotent ==
    (call.op = "_root_path_compression" /\ call.pc_type = "full_pc"
        /\ earlier # <<>>)
        => /\ exc = "none"
           /\ ret = earlier[1]
           /\ id_updated = pre.id_updated

\* The repeated call followed a first call that did compress a path.
C8_Witness ==
    /\ call.op = "_root_path_compression"
    /\ call.pc_type = "full_pc"
    /\ earlier # <<>>
    /\ Len(Minor) = 2
    /\ ret = earlier[1]
    /\ id_updated = pre.id_updated
    /\ Deep(earlier[2], Minor)
    /\ pre.id_updated # earlier[2]

\* C10: find_root (plain or compressing), union and weighted_union report
\* an out-of-range error whenever a supplied id is outside [0, N), negative
\* ids included, and neither return roots nor modify the parents array.
C10_OutOfRangeRejected ==
    ( /\ call.op # "idle"
      /\ call.a.type = "int" \/ call.op # "build_weighted_quick_union"
      /\ call.b.type = "int" \/ call.op # "build_weighted_quick_union"
      /\ IsForest(pre.id_updated)
      /\ \E k \in DOMAIN Minor \cup DOMAIN Main :
            \/ k \in DOMAIN Minor /\ Minor[k] \notin Vertices
            \/ k \in DOMAIN Main /\ Main[k] \notin Vertices )
        => /\ exc = "IndexError"
           /\ ret = <<>>
           /\ id_updated = pre.id_updated

\* C11: the plain root lookup has no side effect: after _root, and after
\* find_root called with path_compression=False, every entry of the parents
\* array equals its value before the call.
C11_PlainLookupNoSideEffect ==
    ( /\ call.op = "_root" \/ (call.op = "find_root" /\ ~call.path_compression)
      /\ IsForest(pre.id_updated)
      /\ exc = "none" )
        => id_updated = pre.id_updated

\* The last call was a union (batch, or weighted on two ints) made on a
\* valid forest in which the two ids of every pair already had one root.
UnionOfConnected ==
    /\ \/ call.op = "build_quick_union"
       \/ /\ call.op = "build_weighted_quick_union"
          /\ call.a.type = "int"
          /\ call.b.type = "int"
    /\ IsForest(pre.id_updated)
    /\ \A k \in DOMAIN Minor : Connected(pre.id_updated, Minor[k], Main[k])

\* C12 as stated: a union whose pairs are all already connected leaves the
\* parents array, the size table and the roots snapshot exactly as they
\* were, for every compression flag and mode.
C12_ConnectedUnionNoOp == UnionOfConnected => (exc = "none" /\ Attrs = pre)

\* C12 amended: the same, for a union made with compression disabled.
C12_ConnectedUnionNoOpPlain ==
    (UnionOfConnected /\ ~call.path_compression) => (exc = "none" /\ Attrs = pre)

\* A batch union without compression of two pairs of distinct ids, one of
\* them two links or more below its root, that came back as a no-op.
C12_Witness ==
    /\ UnionOfConnected
    /\ call.op = "build_quick_union"
    /\ ~call.path_compression
    /\ Len(Minor) = 2
    /\ \A k \in DOMAIN Minor : Minor[k] # Main[k]
    /\ Deep(pre.id_updated, Minor)
    /\ exc = "none"
    /\ Attrs = pre

\* C13: after find_root(ids) on a valid forest, for any path_compression
\* flag and either compression type, the parent entry of every supplied id
\* is that id's root (the root it had before the call and still has).
C13_FindRootPointsIdsAtRoots ==
    (call.op = "find_root" /\ IsForest(pre.id_updated))
        => /\ exc = "none"
           /\ IsForest(id_updated)
           /\ \A k \in DOMAIN Minor :
                 /\ id_updated[Minor[k]] = RootOf(pre.id_updated, Minor[k])
                 /\ id_updated[Minor[k]] = RootOf(id_updated, Minor[k])

\* find_root without compression on two ids of different trees, one of them
\* two links or more below its root, now both pointed at their roots.
C13_Witness ==
    /\ call.op = "find_root"
    /\ ~call.path_compression
    /\ IsForest(pre.id_updated)
    /\ Len(Minor) = 2
    /\ Deep(pre.id_updated, Minor)
    /\ RootOf(pre.id_updated, Minor[1]) # RootOf(pre.id_updated, Minor[2])
    /\ \A k \in DOMAIN Minor : id_updated[Minor[k]] = RootOf(pre.id_updated, Minor[k])
    /\ id_updated # pre.id_updated

\* The vertices on the parent path of id from v to its root, both included.
Path(id, v) == {Ancestor(id, v, k) : k \in 0 .. ArrLen(id)}

\* The vertices on the parent path from some id of the batch to its root.
OnPaths(id, v) == UNION {Path(id, v[k]) : k \in DOMAIN v}

\* C14: after a full_pc lookup on a batch of ids of a valid forest, every
\* vertex on the pre-call parent path from a supplied id to its root has that
\* root as its parent, also when supplied ids share part of a path, and
\* every vertex on no such path keeps its parent.
C14_FullCompressionFlattensPaths ==
    ( /\ call.op = "_root_path_compression"
      /\ call.pc_type = "full_pc"
      /\ IsForest(pre.id_updated) )
        => /\ exc = "none"
           /\ \A x \in Vertices :
                 id_updated[x] = IF x \in OnPaths(pre.id_updated, Minor)
                                 THEN RootOf(pre.id_updated, x)
                                 ELSE pre.id_updated[x]

\* A full_pc lookup on two different ids, the second on the path of the
\* first, which is three links below the root; a vertex between them was
\* repointed.
C14_Witness ==
    /\ call.op = "_root_path_compression"
    /\ call.pc_type = "full_pc"
    /\ earlier = <<>>
    /\ IsForest(pre.id_updated)
    /\ Len(Minor) = 2
    /\ Minor[1] # Minor[2]
    /\ Cardinality(Path(pre.id_updated, Minor[1])) = 4
    /\ Minor[2] \in Path(pre.id_updated, Minor[1])
    /\ Minor[2] # RootOf(pre.id_updated, Minor[1])
    /\ \E x \in Path(pre.id_updated, Minor[1]) :
          /\ pre.id_updated[x] # RootOf(pre.id_updated, x)
          /\ id_updated[x] = RootOf(pre.id_updated, x)
    /\ \A x \in OnPaths(pre.id_updated, Minor) :
          id_updated[x] = RootOf(pre.id_updated, x)

\* The number of parent links from v to its root in the forest id.
Depth(id, v) == Cardinality(Path(id, v)) - 1

Min(a, b) == IF a <= b THEN a ELSE b

\* C15: after a path_halving lookup on a single id whose pre-call parent
\* path is p0, p1, ..., pk (pk the root), each even-indexed path vertex p(2m)
\* has parent p(min(2m+2, k)), and the odd-indexed path vertices and the
\* vertices off the path keep their parents.
C15_PathHalvingEffect ==
    ( /\ call.op = "_root_path_compression"
      /\ call.pc_type = "path_halving"
      /\ Len(Minor) = 1
      /\ IsForest(pre.id_updated) )
        => LET p(m) == Ancestor(pre.id_updated, Minor[1], m)
               k    == Depth(pre.id_updated, Minor[1])
               Even == {m \in 0 .. k : m % 2 = 0}
           IN  /\ exc = "none"
               /\ \A m \in Even : id_updated[p(m)] = p(Min(m + 2, k))
               /\ \A x \in Vertices \ {p(m) : m \in Even} :
                     id_updated[x] = pre.id_updated[x]

\* A path_halving lookup on an id three links below its root: p0 and p2
\* were repointed and p1 was left under p2.
C15_Witness ==
    /\ call.op = "_root_path_compression"
    /\ call.pc_type = "path_halving"
    /\ earlier = <<>>
    /\ Len(Minor) = 1
    /\ IsForest(pre.id_updated)
    /\ Depth(pre.id_updated, Minor[1]) = 3
    /\ exc = "none"
    /\ id_updated[Minor[1]] = Ancestor(pre.id_updated, Minor[1], 2)
    /\ id_updated[Ancestor(pre.id_updated, Minor[1], 1)]
           = Ancestor(pre.id_updated, Minor[1], 2)
    /\ id_updated[Ancestor(pre.id_updated, Minor[1], 2)]
           = Ancestor(pre.id_updated, Minor[1], 3)

\* The number of vertices of the tree of id rooted at r.
TreeSize(id, r) == Cardinality({v \in DOMAIN id : RootOf(id, v) = r})

\* The last call was a weighted union of two int ids of different trees of
\* a valid forest.
WeightedMerge ==
    /\ call.op = "build_weighted_quick_union"
    /\ call.a.type = "int"
    /\ call.b.type = "int"
    /\ IsForest(pre.id_updated)
    /\ Minor[1] \in Vertices
    /\ Main[1] \in Vertices
    /\ RootOf(pre.id_updated, Minor[1]) # RootOf(pre.id_updated, Main[1])

\* C16: a weighted_union that merges the trees rooted i = root(minor) and
\* j = root(main) attaches i under j when size[i] <= size[j] (ties
\* included) and j under i otherwise; the surviving root's count becomes
\* size[i] + size[j] and the absorbed root has no entry in the size table.
C16_WeightedAttachRule ==
    WeightedMerge
        => LET i    == RootOf(pre.id_updated, Minor[1])
               j    == RootOf(pre.id_updated, Main[1])
               si   == TreeSize(pre.id_updated, i)
               sj   == TreeSize(pre.id_updated, j)
               lose == IF si <= sj THEN i ELSE j
               keep == IF si <= sj THEN j ELSE i
           IN  /\ exc = "none"
               /\ id_updated[lose] = keep
               /\ id_updated[keep] = keep
               /\ size.defined
               /\ Where(size, lose) = {}
               /\ \E c \in Where(size, keep) : size.counts[c] = si + sj

\* The last call was a batch union without compression on a valid forest,
\* with a pair whose two ids had different roots.
PlainBatchUnion ==
    /\ call.op = "build_quick_union"
    /\ ~call.path_compression
    /\ IsForest(pre.id_updated)
    /\ \E k \in DOMAIN Minor :
          RootOf(pre.id_updated, Minor[k]) # RootOf(pre.id_updated, Main[k])

\* The last pair, in batch order, whose minor id had root r before the call.
LastPairOf(r) ==
    CHOOSE k \in DOMAIN Minor :
        /\ RootOf(pre.id_updated, Minor[k]) = r
        /\ \A t \in DOMAIN Minor : RootOf(pre.id_updated, Minor[t]) = r => t <= k

\* C18: a batch union that is not all-connected, run without compression,
\* sets the parent of each distinct root r of the minor ids to the root of
\* the main id of the last pair whose minor root is r, leaves every other
\* parent entry unchanged and does not touch the size table.
C18_BatchUnionExactEffect ==
    PlainBatchUnion
        => LET MinorRoots == {RootOf(pre.id_updated, Minor[k]) : k \in DOMAIN Minor}
           IN  /\ exc = "none"
               /\ \A r \in MinorRoots :
                     id_updated[r] = RootOf(pre.id_updated, Main[LastPairOf(r)])
               /\ \A x \in Vertices \ MinorRoots : id_updated[x] = pre.id_updated[x]
               /\ size = pre.size
               /\ roots = pre.roots

\* Two pairs with one minor root and two different main roots, neither of
\* them the minor root: the minor root ended under the second main root.
C18_Witness ==
    /\ PlainBatchUnion
    /\ exc = "none"
    /\ Len(Minor) = 2
    /\ LET r  == RootOf(pre.id_updated, Minor[1])
           j1 == RootOf(pre.id_updated, Main[1])
           j2 == RootOf(pre.id_updated, Main[2])
       IN  /\ RootOf(pre.id_updated, Minor[2]) = r
           /\ Minor[1] # Minor[2]
           /\ j1 # r
           /\ j2 # r
           /\ j1 # j2
           /\ id_updated[r] = j2

\* The positions of a batch at which the two root arrays differ, in order.
RECURSIVE Differing(_, _, _)
Differing(i, j, k) ==
    IF k > Len(i) THEN <<>>
    ELSE IF i[k] # j[k] THEN <<k>> \o Differing(i, j, k + 1)
    ELSE Differing(i, j, k + 1)

\* The batch union that skips the pairs whose roots are already equal and
\* assigns parent[i] = j for the pairs with i # j only.
UnionSkippingConnected(id, minor, main, path_compression, pc_type) ==
    LET i == Lookup(id, minor, path_compression, pc_type)
        j == Lookup(i.id, main, path_compression, pc_type)
        d == Differing(i.ret, j.ret, 1)
    IN  Put(j.id, [k \in DOMAIN d |-> i.ret[d[k]]], [k \in DOMAIN d |-> j.ret[d[k]]])

\* C19: in a partially connected batch union the assignment parent[i] = j
\* made also for the pairs with equal roots is harmless: the parents array
\* is the one a union that skips those pairs would leave.
C19_SelfAssignmentHarmless ==
    ( /\ call.op = "build_quick_union"
      /\ IsForest(pre.id_updated)
      /\ exc = "none"
      /\ \E k \in DOMAIN Minor : Connected(pre.id_updated, Minor[k], Main[k])
      /\ \E k \in DOMAIN Minor : ~Connected(pre.id_updated, Minor[k], Main[k]) )
        => id_updated = UnionSkippingConnected(pre.id_updated, Minor, Main,
                                               call.path_compression, call.pc_type)

RECURSIVE Pow2(_)
Pow2(h) == IF h = 0 THEN 1 ELSE 2 * Pow2(h - 1)

\* Every tree of height h of the forest id has at least 2^h vertices: every
\* vertex d links below its root is in a tree of at least 2^d vertices.
Balanced(id) ==
    /\ IsForest(id)
    /\ \A v \in DOMAIN id : TreeSize(id, RootOf(id, v)) >= Pow2(Depth(id, v))

\* C20: after a weighted_union call on two ids of different trees of a
\* valid forest, whatever the forest, every tree of height h has at least
\* 2^h vertices, so that no tree is taller than log2(N).  (The size array
\* is built from a root-find over all the vertices, which would leave every
\* vertex one link from its root before the two roots are joined.)
C20_HeightBoundAfterUnion ==
    WeightedMerge => Balanced(id_updated)

\* The self-parented vertices of id.
SelfParented(id) == {v \in DOMAIN id : id[v] = v}

\* C23: a root-find in any mode (plain, path_halving, full_pc; by _root,
\* _root_path_compression or find_root) on a batch of ids of a valid forest
\* preserves the partition: every vertex of the forest, supplied or not, has
\* the root it had before the call, and the self-parented vertices are the
\* same.
C23_RootFindKeepsPartition ==
    ( /\ call.op \in {"_root", "_root_path_compression", "find_root"}
      /\ IsForest(pre.id_updated) )
        => /\ exc = "none"
           /\ IsForest(id_updated)
           /\ \A v \in Vertices : RootOf(id_updated, v) = RootOf(pre.id_updated, v)
           /\ SelfParented(id_updated) = SelfParented(pre.id_updated)

\* A path_halving find_root on two different ids of one path, the lower one
\* three links below the root, that changed the parents array; a vertex not
\* supplied lies between them.
C23_Witness ==
    /\ call.op = "find_root"
    /\ call.path_compression
    /\ call.pc_type = "path_halving"
    /\ IsForest(pre.id_updated)
    /\ Len(Minor) = 2
    /\ Minor[1] # Minor[2]
    /\ Depth(pre.id_updated, Minor[1]) = 3
    /\ Minor[2] \in Path(pre.id_updated, Minor[1])
    /\ Minor[2] # RootOf(pre.id_updated, Minor[1])
    /\ id_updated # pre.id_updated
    /\ \A v \in Vertices : RootOf(id_updated, v) = RootOf(pre.id_updated, v)

(***************************************************************************)
(* Properties of the labeler.                                              *)
(***************************************************************************)
\* The vertices listed as neighbours of v.
Nbrs(adj, v) == {adj[v][p] : p \in DOMAIN adj[v]}

\* The vertices reached from those of S along at most k listed edges.
RECURSIVE ReachFrom(_, _, _)
ReachFrom(adj, S, k) ==
    IF k = 0 THEN S
    ELSE ReachFrom(adj, S \cup UNION {Nbrs(adj, x) : x \in S}, k - 1)

\* v is reachable from u by following listed adjacency edges.
Reach(adj, u, v) == v \in ReachFrom(adj, {u}, Cardinality(DOMAIN adj))

\* Every listed edge is also listed from its other end.
Symmetric(adj) == \A u, v \in DOMAIN adj : v \in Nbrs(adj, u) <=> u \in Nbrs(adj, v)

\* The listed edges taken in both directions.
Undirected(adj) == [v \in DOMAIN adj |-> Nbrs(adj, v) \cup {u \in DOMAIN adj : v \in Nbrs(adj, u)}]

RECURSIVE Spread(_, _, _)
Spread(und, S, k) ==
    IF k = 0 THEN S ELSE Spread(und, S \cup UNION {und[x] : x \in S}, k - 1)

\* The connected components: the maximal sets of vertices linked by edges.
Components(adj) ==
    {Spread(Undirected(adj), {v}, Cardinality(DOMAIN adj)) : v \in DOMAIN adj}

\* Same label exactly when one vertex is reachable from the other, and every
\* label in [0, K) for K the number of components.
Partitioned(adj, lab) ==
    /\ \A u, v \in DOMAIN adj :
          lab[u] = lab[v] <=> (Reach(adj, u, v) \/ Reach(adj, v, u))
    /\ \A v \in DOMAIN adj :
          0 <= lab[v] /\ lab[v] < Cardinality(Components(adj))

\* C5 as stated: for the labeler run on any adjacency list, two vertices
\* get the same label iff one is reachable from the other along listed
\* edges, and every vertex ends with one label in [0, K).
C5_PartitionAnyList == dfs_pc = "done" => Partitioned(adj_list, labels)

\* C5 amended: the same, for an adjacency list that lists every edge from
\* both of its ends.
C5_PartitionSymmetricList ==
    (dfs_pc = "done" /\ Symmetric(adj_list)) => Partitioned(adj_list, labels)

\* A run on a symmetric list with a component of three vertices, two of
\* them not adjacent, and a second component.
C5_Witness ==
    /\ dfs_pc = "done"
    /\ Symmetric(adj_list)
    /\ Partitioned(adj_list, labels)
    /\ \E u, v, w \in DfsVertices :
          /\ u # v
          /\ labels[u] = labels[v]
          /\ v \notin Nbrs(adj_list, u)
          /\ labels[w] # labels[u]

\* The labels the run handed out.
LabelsUsed == {labels[v] : v \in DOMAIN labels}

\* The lowest-indexed vertex labelled k.
FirstWith(k) ==
    CHOOSE v \in DOMAIN labels :
        labels[v] = k /\ \A u \in DOMAIN labels : labels[u] = k => v <= u

\* C21: the labeler numbers the components it finds in the order of its
\* outer scan: with K the number of labels handed out (the number of
\* components, when the list names every edge from both ends), the labels
\* are exactly 0 .. K-1, vertex 0 has label 0, and for every k < K-1 the
\* lowest-indexed vertex labelled k comes before the lowest-indexed vertex
\* labelled k+1.
C21_LabelsInScanOrder ==
    dfs_pc = "done"
        => LET K == Cardinality(LabelsUsed)
           IN  /\ LabelsUsed = 0 .. (K - 1)
               /\ K = now + 1
               /\ Symmetric(adj_list) => K = Cardinality(Components(adj_list))
               /\ labels[0] = 0
               /\ \A k \in 0 .. (K - 2) : FirstWith(k) < FirstWith(k + 1)

\* A run that found three components, the first of which holds a vertex
\* of higher index than the first vertex of the second.
C21_Witness ==
    /\ dfs_pc = "done"
    /\ Symmetric(adj_list)
    /\ Cardinality(LabelsUsed) = 3
    /\ \E u, v \in DfsVertices : u < v /\ labels[u] = 1 /\ labels[v] = 0

\* The vertices reached from those of S along listed edges that stay
\* inside Free, in at most k steps.  Only the sets of neighbours are used.
RECURSIVE ReachWithin(_, _, _, _)
ReachWithin(adj, Free, S, k) ==
    IF k = 0 THEN S
    ELSE ReachWithin(adj, Free,
                     S \cup (Free \cap UNION {Nbrs(adj, x) : x \in S}), k - 1)

\* The label array as the neighbour sets alone determine it: going through
\* the vertices in index order, a vertex i without a label takes the next
\* label together with every vertex reachable from i through vertices
\* without a label.
RECURSIVE LabelsFromSets(_, _, _, _)
LabelsFromSets(adj, lab, i, nxt) ==
    IF i = Cardinality(DOMAIN adj) THEN lab
    ELSE IF lab[i] # -1 THEN LabelsFromSets(adj, lab, i + 1, nxt)
    ELSE LET Free == {v \in DOMAIN adj : lab[v] = -1}
             Got  == ReachWithin(adj, Free, {i}, Cardinality(DOMAIN adj))
         IN  LabelsFromSets(adj, [v \in DOMAIN adj |-> IF v \in Got THEN nxt ELSE lab[v]],
                            i + 1, nxt + 1)

\* C24: the label array depends only on each vertex's set of neighbours,
\* not on the order in which they are listed: the array returned is the one
\* the neighbour sets determine, so the run on a list with any vertex's
\* neighbour sequence permuted returns the same label values.
C24_LabelsIgnoreNeighbourOrder ==
    dfs_pc = "done"
        => labels = LabelsFromSets(adj_list, [v \in DOMAIN adj_list |-> -1], 0, 0)

\* A run on a list in which a vertex names two different neighbours, the
\* higher one first, both unvisited when its visit began, and in which a
\* second component exists.
C24_Witness ==
    /\ dfs_pc = "done"
    /\ labels = LabelsFromSets(adj_list, [v \in DOMAIN adj_list |-> -1], 0, 0)
    /\ Cardinality(LabelsUsed) >= 2
    /\ \E v \in DfsVertices :
          /\ Len(adj_list[v]) = 2
          /\ adj_list[v][1] > adj_list[v][2]
          /\ adj_list[v][2] > v
          /\ labels[v] = labels[adj_list[v][1]]
          /\ FirstWith(labels[v]) = v

\* C22: for every adjacency list with neighbour ids in [0, N) the labeling
\* run comes to an end with each vertex assigned its label exactly once and
\* no vertex left at the unvisited sentinel -1; no vertex is ever assigned
\* twice.
C22_EveryVertexLabelledOnce ==
    /\ \A v \in DOMAIN stores : stores[v] <= 1
    /\ dfs_pc \in {"done", "raised"}
          => \A v \in DOMAIN adj_list : stores[v] = 1 /\ labels[v] # -1

====
